---- MODULE Spec2Model ----
(***************************************************************************)
(* Model of the geocoding API (src/api.py): the coordinate extractors,     *)
(* the forward and reverse geocoders, the /geocode and /reverse-geocode    *)
(* endpoints and the two batch endpoints /geocode-file and                 *)
(* /reverse-geocode-file.                                                  *)
(*                                                                         *)
(* Text is modelled at the level the regular expressions of the code see  *)
(* it: a URL or an HTML body is a sequence of segments, each segment      *)
(* either a syntactic site of one of the patterns (with the two numeric   *)
(* literals found at that site) or other text.  Numeric literals are      *)
(* strings; float() is the table ParseFloat (hundredths of a degree).     *)
(***************************************************************************)
EXTENDS Integers, Sequences, FiniteSets, TLC

VARIABLES
    op,         \* which operation the process is serving ("idle" before any)
    pc,         \* position inside the operation
    url,        \* the URL handed to extract_lat_long / response.url
    html,       \* response.text of the map search request
    coords,     \* (lat, lng) returned by the extractor / forward geocoder; <<>> for (None, None)
    status,     \* HTTP status of the finished request (0: none yet)
    revIn,      \* reverse geocoding: the (lat, lng) asked for
    nom,        \* the reverse-geocoding API's behaviour for this call
    place,      \* the map provider's place page behaviour for this call
    revOut,     \* the triple (address, formatted_address, source url) returned
    reqLog,     \* the upstream requests issued by the call, in order
    filename,   \* batch: file.filename, a sequence of characters
    columns,    \* batch: the column names of the form (address_column | lat_column, long_column)
    temp_input_path, \* batch: the temporary input file's path (<<>> before it is chosen)
    fs,         \* the local filesystem: path -> content of the file there
    upload,     \* batch: the bytes file.read() gave (NoContent before)
    df,         \* batch: the dataset in memory (NoDf before it is read)
    idx,        \* batch: the row the loop is at
    log,        \* batch: geocoder calls and sleeps, in order
    detail,     \* the detail of the HTTPException raised
    body,       \* batch: the content of the file the response sends
    reqs,       \* concurrent batch requests: request -> its handler's state
    clock,      \* concurrent batch requests: the second datetime.now() is in
    inodes      \* concurrent batch requests: which file each path names, and the next new file

batchVars == <<filename, columns, temp_input_path, fs, upload, df, idx, log, detail, body>>

singleVars == <<url, html, coords, revIn, nom, place, revOut, reqLog>>

concVars == <<reqs, clock, inodes>>

vars == <<op, pc, status, singleVars, batchVars, concVars>>

(***************************************************************************)
(* Bounds of the model.                                                    *)
(***************************************************************************)
MaxUrlSegs == 3
MaxRespUrlSegs == 1
MaxHtmlSegs == 2
MaxComponents == 2
MaxRows == 2

(***************************************************************************)
(* Numeric literals and float().                                           *)
(***************************************************************************)
\* the literal has the shape -?\d+\.\d+ required by every pattern group
IsDecimal(lit) == lit \notin {"45", "90"}

\* float(): the value of a literal, in hundredths
ParseFloat(lit) ==
    CASE lit = "12.34"  -> 1234
      [] lit = "56.78"  -> 5678
      [] lit = "-33.9"  -> -3390
      [] lit = "151.2"  -> 15120
      [] lit = "123.45" -> 12345
      [] lit = "181.5"  -> 18150
      [] lit = "45"     -> 4500
      [] lit = "90"     -> 9000

\* -90 <= lat <= 90 and -180 <= lng <= 180 (hundredths)
InRange(lat, lng) == -9000 <= lat /\ lat <= 9000 /\ -18000 <= lng /\ lng <= 18000

NoCoords == <<>>

(***************************************************************************)
(* Segments of text.                                                       *)
(***************************************************************************)
Pairs == { <<"12.34", "56.78">>, <<"-33.9", "151.2">>, <<"123.45", "56.78">>,
           <<"12.34", "181.5">>, <<"45", "90">> }

HtmlPairs == { <<"12.34", "56.78">>, <<"-33.9", "151.2">>, <<"123.45", "56.78">> }

RespUrlPairs == { <<"12.34", "56.78">>, <<"123.45", "56.78">> }

Other == [k |-> "other", lat |-> "", lng |-> ""]

Site(kind, pair) == [k |-> kind, lat |-> pair[1], lng |-> pair[2]]

UrlSegs == { Site(kind, p) : kind \in {"at", "bang"}, p \in Pairs } \cup {Other}

RespUrlSegs == { Site(kind, p) : kind \in {"at", "bang"}, p \in RespUrlPairs } \cup {Other}

HtmlKinds == <<"json", "quoted", "center", "at", "bang">>

HtmlSegs == { Site(HtmlKinds[i], p) : i \in 1..Len(HtmlKinds), p \in HtmlPairs } \cup {Other}

SeqsUpTo(S, n) == UNION { [1..m -> S] : m \in 0..n }

\* the indices of text where the pattern of this kind matches
Matches(text, kind) ==
    { i \in 1..Len(text) : text[i].k = kind /\ IsDecimal(text[i].lat) /\ IsDecimal(text[i].lng) }

Min(S) == CHOOSE x \in S : \A y \in S : x <= y

\* the two groups of the leftmost match, through float()
FirstMatch(text, kind) ==
    LET i == Min(Matches(text, kind))
    IN  <<ParseFloat(text[i].lat), ParseFloat(text[i].lng)>>

(***************************************************************************)
(* extract_lat_long: pattern 1 (@lat,lng), then pattern 2 (!3dlat!4dlng).  *)
(***************************************************************************)
extract_lat_long_bang_first(u) ==
    IF Matches(u, "bang") # {} THEN FirstMatch(u, "bang")
    ELSE IF Matches(u, "at") # {} THEN FirstMatch(u, "at")
    ELSE NoCoords

extract_lat_long(u) ==
    IF Matches(u, "at") # {} THEN FirstMatch(u, "at")
    ELSE IF Matches(u, "bang") # {} THEN FirstMatch(u, "bang")
    ELSE NoCoords

(***************************************************************************)
(* extract_lat_long_from_html: the five patterns in order; the first match *)
(* of a pattern is range-checked, and a pattern whose first match is out   *)
(* of range is passed over.                                                *)
(***************************************************************************)
RECURSIVE HtmlFrom(_, _)
HtmlFrom(h, p) ==
    IF p > Len(HtmlKinds) THEN NoCoords
    ELSE IF Matches(h, HtmlKinds[p]) # {}
              /\ InRange(FirstMatch(h, HtmlKinds[p])[1], FirstMatch(h, HtmlKinds[p])[2])
         THEN FirstMatch(h, HtmlKinds[p])
         ELSE HtmlFrom(h, p + 1)

extract_lat_long_from_html(h) == HtmlFrom(h, 1)

(***************************************************************************)
(* get_coordinates: the search request either raises (the result is        *)
(* (None, None, diagnostic)) or answers with a resolved URL and a body.    *)
(***************************************************************************)
SearchResponses ==
    { [exc |-> TRUE, url |-> <<>>, html |-> <<>>] } \cup
    { [exc |-> FALSE, url |-> u, html |-> h] :
        u \in SeqsUpTo(RespUrlSegs, MaxRespUrlSegs), h \in SeqsUpTo(HtmlSegs, MaxHtmlSegs) }

get_coordinates(resp) ==
    IF resp.exc THEN NoCoords
    ELSE IF extract_lat_long(resp.url) # NoCoords THEN extract_lat_long(resp.url)
    ELSE extract_lat_long_from_html(resp.html)

(***************************************************************************)
(* Python values of the reverse geocoder: a string is the tuple of its     *)
(* pieces behind the tag "str" (an f-string or a join is the tuple of what *)
(* it concatenates); None is PyNone.                                       *)
(***************************************************************************)
PyNone == <<"None">>

Str(pieces) == <<"str">> \o pieces

PlaceBase == "https://www.google.com/maps/place/"

\* f"https://www.google.com/maps/place/{lat},{lng}"
PlaceUrl(lat, lng) == Str(<<PlaceBase, lat, ",", lng>>)

\* f"{lat}, {lng}"
CoordText(lat, lng) == Str(<<lat, ", ", lng>>)

\* f"Location at {lat}, {lng}"
LocationText(lat, lng) == Str(<<"Location at ", lat, ", ", lng>>)

Fallback(lat, lng) == <<CoordText(lat, lng), LocationText(lat, lng), PlaceUrl(lat, lng)>>

(***************************************************************************)
(* The reverse-geocoding API's answer.  exc: requests.get raised.  json:   *)
(* what response.json() gives ("unparsable": it raises).  For an object:   *)
(* dn is the display_name member (absent, null or a string), addr the      *)
(* address member (absent, not a dict, or a dict), comps the keys of addr  *)
(* with a truthy value, numeric whether the postcode is a JSON number.     *)
(***************************************************************************)
AddressKeys ==
    {"building", "house_number", "road", "neighbourhood", "suburb", "city",
     "town", "village", "postcode", "state", "country"}

JsonKinds == {"unparsable", "null", "list", "list_dn", "str", "str_dn", "object"}

DisplayName == Str(<<"Medanta, Sector 38, Gurugram, Haryana, 122001, India">>)

NomAnswer(e, st, j, d, a, c, n) ==
    [exc |-> e, status |-> st, json |-> j, dn |-> d, addr |-> a, comps |-> c, numeric |-> n]

NomResponses ==
    { NomAnswer(TRUE, 0, "object", "absent", "absent", {}, FALSE) } \cup
    { NomAnswer(FALSE, st, "object", "str", "absent", {}, FALSE) : st \in {404, 500} } \cup
    { NomAnswer(FALSE, 200, j, "absent", "absent", {}, FALSE) : j \in JsonKinds \ {"object"} } \cup
    { NomAnswer(FALSE, 200, "object", d, a, {}, FALSE) :
        d \in {"absent", "null", "str"}, a \in {"absent", "notdict"} } \cup
    { NomAnswer(FALSE, 200, "object", d, "dict", c, n) :
        d \in {"absent", "null", "str"},
        c \in { x \in SUBSET AddressKeys : Cardinality(x) <= MaxComponents },
        n \in {FALSE, TRUE} }

\* the first key of the group with a truthy value, as a list of parts (if/elif)
FirstOf(c, keys) ==
    LET present == { i \in 1..Len(keys) : keys[i] \in c }
    IN  IF present = {} THEN <<>> ELSE <<keys[Min(present)]>>

\* formatted_parts, in the order the code appends them
FormattedParts(c) ==
    FirstOf(c, <<"building", "house_number">>) \o FirstOf(c, <<"road", "neighbourhood">>)
    \o FirstOf(c, <<"suburb">>) \o FirstOf(c, <<"city", "town", "village">>)
    \o FirstOf(c, <<"postcode">>) \o FirstOf(c, <<"state">>) \o FirstOf(c, <<"country">>)

\* ', '.join(parts); each part's text is named by its key
RECURSIVE Join(_)
Join(parts) ==
    IF Len(parts) = 0 THEN <<>>
    ELSE IF Len(parts) = 1 THEN parts
    ELSE <<parts[1], ", ">> \o Join(Tail(parts))

\* 'display_name' in data: "raise" (TypeError), TRUE or FALSE
HasDisplayName(r) ==
    CASE r.json = "null"    -> "raise"
      [] r.json = "list"    -> "no"
      [] r.json = "list_dn" -> "yes"
      [] r.json = "str"     -> "no"
      [] r.json = "str_dn"  -> "yes"
      [] r.json = "object"  -> IF r.dn = "absent" THEN "no" ELSE "yes"

\* lines 135-181 raise: indexing a list or a string with 'display_name', .get on
\* an address that is no dict, or join over a part that is a number
FormatRaises(r) ==
    \/ r.json # "object"
    \/ r.addr = "notdict"
    \/ r.addr = "dict" /\ r.numeric /\ "postcode" \in r.comps

\* the triple returned at line 181
Step1Result(lat, lng, r) ==
    LET address == IF r.dn = "null" THEN PyNone ELSE DisplayName
        parts == IF r.addr = "dict" THEN FormattedParts(r.comps) ELSE <<>>
        formatted == IF parts # <<>> THEN Str(Join(parts)) ELSE address
    IN  <<address, formatted, PlaceUrl(lat, lng)>>

(***************************************************************************)
(* The place page's answer: exc (requests.get raised) or the resolved URL, *)
(* a string in pieces.  /place/([^/@]+)/@ matches a URL whose pieces after *)
(* the place prefix are name pieces followed by the piece "/@".            *)
(***************************************************************************)
PlaceNames == { <<"Medanta", "+", "Hospital">>, <<"A", "%2B", "B">>, <<"Caf%C3%A9", "%20", "B">> }

ResolvedUrls(lat, lng) ==
    { Str(<<PlaceBase>> \o n \o <<"/@", "17z">>) : n \in PlaceNames } \cup
    { PlaceUrl(lat, lng), Str(<<"https://consent.google.com/m">>), Str(<<PlaceBase, "/@", "17z">>) }

PlaceResponses(lat, lng) ==
    { [exc |-> TRUE, url |-> Str(<<>>)] } \cup
    { [exc |-> FALSE, url |-> u] : u \in ResolvedUrls(lat, lng) }

\* the end of group 1 of the match: the index of the piece "/@" closing a non-empty name
PlaceMatchEnd(u) ==
    IF Len(u) >= 4 /\ u[2] = PlaceBase /\ \E i \in 4..Len(u) : u[i] = "/@"
    THEN Min({ i \in 4..Len(u) : u[i] = "/@" })
    ELSE 0

\* .replace('+', ' ')
ReplacePlus(name) == [i \in 1..Len(name) |-> IF name[i] = "+" THEN " " ELSE name[i]]

\* urllib.parse.unquote, piece by piece
UnquotePiece(p) ==
    CASE p = "%20" -> " "
      [] p = "%2B" -> "+"
      [] p = "Caf%C3%A9" -> "Cafe-acute"
      [] OTHER -> p

unquote(name) == [i \in 1..Len(name) |-> UnquotePiece(name[i])]

(***************************************************************************)
(* get_address_from_coordinates: the triple returned and the requests      *)
(* issued.  Any exception inside the try block ends in the handler of line *)
(* 200, which returns the synthesized triple.                              *)
(***************************************************************************)
PlaceStep(lat, lng, p) ==
    IF p.exc THEN Fallback(lat, lng)
    ELSE IF PlaceMatchEnd(p.url) # 0
         THEN LET address == Str(unquote(ReplacePlus(SubSeq(p.url, 3, PlaceMatchEnd(p.url) - 1))))
              IN  <<address, address, p.url>>
         ELSE Fallback(lat, lng)

get_address_retry_place(lat, lng, r, p) ==
    IF ~r.exc /\ r.status = 200 /\ r.json # "unparsable"
       /\ HasDisplayName(r) = "yes" /\ ~FormatRaises(r)
    THEN [ret |-> Step1Result(lat, lng, r), log |-> <<"nominatim">>]
    ELSE [ret |-> PlaceStep(lat, lng, p), log |-> <<"nominatim", "place">>]

get_address_from_coordinates(lat, lng, r, p) ==
    IF r.exc THEN [ret |-> Fallback(lat, lng), log |-> <<"nominatim">>]
    ELSE IF r.status = 200 /\ r.json = "unparsable"
         THEN [ret |-> Fallback(lat, lng), log |-> <<"nominatim">>]
    ELSE IF r.status = 200 /\ HasDisplayName(r) = "raise"
         THEN [ret |-> Fallback(lat, lng), log |-> <<"nominatim">>]
    ELSE IF r.status = 200 /\ HasDisplayName(r) = "yes"
         THEN IF FormatRaises(r)
              THEN [ret |-> Fallback(lat, lng), log |-> <<"nominatim">>]
              ELSE [ret |-> Step1Result(lat, lng, r), log |-> <<"nominatim">>]
    ELSE [ret |-> PlaceStep(lat, lng, p), log |-> <<"nominatim", "place">>]

LatLngs == { <<"28.4391604", "77.0388113">>, <<"-33.9", "151.2">> }

NoNom == NomAnswer(TRUE, 0, "object", "absent", "absent", {}, FALSE)

NoPlace == [exc |-> TRUE, url |-> Str(<<>>)]

(***************************************************************************)
(* Batch endpoints: file names, extensions and paths.                      *)
(***************************************************************************)
Filenames ==
    { <<"a", ".", "c", "s", "v">>, <<"A", ".", "C", "S", "V">>,
      <<"b", ".", "x", "l", "s", "x">>, <<"b", ".", "x", "l", "s">>,
      <<"n", ".", "t", "x", "t">>, <<"n">>, <<".", "c", "s", "v">>,
      <<"a", ".", "c", "s", "v", ".", "t", "x", "t">> }

Max(S) == CHOOSE x \in S : \A y \in S : x >= y

\* os.path.splitext(filename)[1]: from the last dot, unless only dots precede it
splitext(name) ==
    LET dots == { i \in 1..Len(name) : name[i] = "." }
    IN  IF dots # {} /\ \E j \in 1..(Max(dots) - 1) : name[j] # "."
        THEN SubSeq(name, Max(dots), Len(name))
        ELSE <<>>

LowerChar(c) ==
    CASE c = "A" -> "a"
      [] c = "C" -> "c"
      [] c = "S" -> "s"
      [] c = "V" -> "v"
      [] OTHER -> c

\* str.lower()
lower(name) == [i \in 1..Len(name) |-> LowerChar(name[i])]

SupportedExtensions ==
    { <<".", "c", "s", "v">>, <<".", "x", "l", "s", "x">>, <<".", "x", "l", "s">> }

\* file_ext in '.csv.xlsx.xls': a substring test, which the empty extension passes
IsSupportedSubstring(ext) == ext = <<>> \/ ext \in SupportedExtensions

\* file_ext in ['.csv', '.xlsx', '.xls']
IsSupported(ext) == ext \in SupportedExtensions

Timestamps == {"20261104_003000"}

\* f"uploads/input_{timestamp}{file_ext}"
TempInputPath(ts, ext) == <<"uploads/input_", ts>> \o ext

\* f"outputs/geocoded_{timestamp}.csv" and f"outputs/reverse_geocoded_{timestamp}.csv"
OutputPath(endpoint, ts) ==
    IF endpoint = "geocode_file"
    THEN <<"outputs/geocoded_", ts, ".csv">>
    ELSE <<"outputs/reverse_geocoded_", ts, ".csv">>

\* the filesystem after writing a file, and after os.remove
WriteFile(f, path, content) ==
    [p \in DOMAIN f \cup {path} |-> IF p = path THEN content ELSE f[p]]

RemoveFile(f, path) == [p \in DOMAIN f \ {path} |-> f[p]]

\* the handler of lines 450-454 / 556-560 without its os.remove
LeaveTempFile(f, path) == f

\* if os.path.exists(temp_input_path): os.remove(temp_input_path)
CleanUpOnError(f, path) == IF path \in DOMAIN f THEN RemoveFile(f, path) ELSE f

(***************************************************************************)
(* Datasets.  A cell is NaN ("na"), None ("none"), a string, a number or a *)
(* date; v is its text in pieces, n the value of a float computed by the   *)
(* forward geocoder (hundredths).                                          *)
(***************************************************************************)
Cell(t, v, n) == [t |-> t, v |-> v, n |-> n]

NaN == Cell("na", <<>>, 0)

NoneCell == Cell("none", <<>>, 0)

Text(s) == Cell("str", <<s>>, 0)

Num(s) == Cell("num", <<s>>, 0)

Date == Cell("date", <<"2024-01-01">>, 0)

\* pd.notna(x)
notna(c) == c.t \notin {"na", "none"}

\* bool(str(x).strip())
StripTruthy(c) == c.v \notin { <<>>, <<"">>, <<"  ">> }

\* float(x): "ok", "ValueError" (a string that is no number), "TypeError" (a date)
FloatOutcome(c) ==
    CASE c.t = "num"  -> "ok"
      [] c.t = "str"  -> "ValueError"
      [] c.t = "date" -> "TypeError"
      [] OTHER        -> "ok"

\* str(float(x)) for a number cell
FloatText(c) == c.v[1]

\* a float, or None, as a cell
FloatCell(cs, i) == IF cs = NoCoords THEN NoneCell ELSE Cell("num", <<>>, cs[i])

\* a str, or None, as a cell
StrCell(x) == IF x = PyNone THEN NoneCell ELSE Cell("str", Tail(x), 0)

Table(fmt, header, rows) == [format |-> fmt, header |-> header, rows |-> rows]

NoContent == Table("none", <<>>, <<>>)

NoDf == Table("none", <<>>, <<>>)

Garbage == Table("garbage", <<>>, <<>>)

ForwardRows(header) ==
    IF header = <<"addr">>
    THEN { <<a>> : a \in {NaN, Text("  "), Text("Delhi")} }
    ELSE { <<a, Text("Agra")>> : a \in {NaN, Text("  "), Text("Delhi")} }

ReverseCoordCells(fmt) ==
    { <<Num("28.4391604"), Num("77.0388113")>>, <<Text("abc"), Num("77.0388113")>>,
      <<Num("28.4391604"), Text("abc")>>, <<NaN, Num("77.0388113")>> }
    \cup (IF fmt = "excel" THEN { <<Date, Num("77.0388113")>> } ELSE {})

ReverseRows(fmt, header) ==
    IF header = <<"lat", "lng">>
    THEN ReverseCoordCells(fmt)
    ELSE { r \o <<Text("old")>> : r \in ReverseCoordCells(fmt) }

\* what file.read() can give, per endpoint
Uploads(endpoint) ==
    {Garbage} \cup
    IF endpoint = "geocode_file"
    THEN UNION { { Table(fmt, h, rows) : rows \in SeqsUpTo(ForwardRows(h), MaxRows) } :
                 fmt \in {"csv", "excel"}, h \in { <<"addr">>, <<"addr", "latitude">> } }
    ELSE UNION { { Table(fmt, h, rows) : rows \in SeqsUpTo(ReverseRows(fmt, h), MaxRows) } :
                 fmt \in {"csv", "excel"}, h \in { <<"lat", "lng">>, <<"lat", "lng", "address">> } }

\* the form fields, per endpoint
ColumnChoices(endpoint) ==
    IF endpoint = "geocode_file"
    THEN { <<c>> : c \in {"addr", "latitude", "city"} }
    ELSE { <<a, b>> : a \in {"lat", "address", "nope"}, b \in {"lng", "nope"} }

\* pd.read_csv / pd.read_excel: the table, or NoDf when the reader raises
ReadTable(ext, content) ==
    IF ext = <<".", "c", "s", "v">>
    THEN IF content.format = "csv" THEN Table("frame", content.header, content.rows) ELSE NoDf
    ELSE IF content.format = "excel" THEN Table("frame", content.header, content.rows) ELSE NoDf

HasColumn(d, name) == \E j \in 1..Len(d.header) : d.header[j] = name

ColIndex(d, name) == CHOOSE j \in 1..Len(d.header) : d.header[j] = name

\* df[name] = None: an existing column is overwritten, a new one is appended
SetColumnNone(d, name) ==
    IF HasColumn(d, name)
    THEN [d EXCEPT !.rows = [i \in 1..Len(d.rows) |->
                                [d.rows[i] EXCEPT ![ColIndex(d, name)] = NoneCell]]]
    ELSE [d EXCEPT !.header = Append(d.header, name),
                   !.rows = [i \in 1..Len(d.rows) |-> Append(d.rows[i], NoneCell)]]

\* df.at[i, name] = value
SetAt(d, i, name, value) == [d EXCEPT !.rows[i][ColIndex(d, name)] = value]

\* row[name]
At(d, i, name) == d.rows[i][ColIndex(d, name)]

\* df.to_csv(path, index=False): None and NaN are both written as the empty field
CsvCell(c) == IF c.t = "none" THEN NaN ELSE c

to_csv(d) ==
    Table("csv", d.header,
          [i \in 1..Len(d.rows) |-> [j \in 1..Len(d.rows[i]) |-> CsvCell(d.rows[i][j])]])

\* time.sleep(0.5) and time.sleep(1), in tenths of a second
ForwardDelay == 5
ReverseDelay == 10

Event(e, row, d) == [e |-> e, row |-> row, d |-> d]

\* the upstream behaviours a row of a batch can meet
BatchSearchResponses ==
    { [exc |-> TRUE, url |-> <<>>, html |-> <<>>],
      [exc |-> FALSE, url |-> <<Site("at", <<"12.34", "56.78">>)>>, html |-> <<>>],
      [exc |-> FALSE, url |-> <<Other>>, html |-> <<Other>>] }

BatchNomResponses ==
    { NoNom,
      NomAnswer(FALSE, 200, "object", "str", "dict", {"road", "city"}, FALSE),
      NomAnswer(FALSE, 200, "object", "null", "absent", {}, FALSE) }

\* detail=f"Column '{name}' not found. Available columns: {', '.join(df.columns)}"
ColumnNotFound(name, d) ==
    <<"Column '", name, "' not found. Available columns: ">> \o Join(d.header)

\* detail=f"Error processing file: {str(e)}"; str(HTTPException) is "400: <detail>"
ErrorProcessing(cause) == <<"Error processing file: ">> \o cause

(***************************************************************************)
(* Two batch requests in flight in one process.  A handler runs from its   *)
(* start to `await file.read()` (the temporary input file is then open for *)
(* writing), and from there to its return without another await; the file  *)
(* named by the FileResponse is read when the response is sent, after the  *)
(* handler returned.  A file object keeps writing to the file it opened,   *)
(* also once that file's name was removed.                                 *)
(***************************************************************************)
MaxTicks == 1
MaxConcRows == 1

Requests == {1, 2}

ConcTimestamps == <<"20261104_003000", "20261104_003001", "20261104_003002">>

\* the file open(path, "wb") leaves behind: no bytes
EmptyFile == Table("empty", <<>>, <<>>)

NewRequest ==
    [pc |-> "new", endpoint |-> "", filename |-> <<>>, columns |-> <<>>, path |-> <<>>,
     handle |-> 0, upload |-> NoContent, readBytes |-> NoContent, outpath |-> <<>>,
     written |-> NoContent, status |-> 0, body |-> NoContent]

ConcFilenames == { <<"a", ".", "c", "s", "v">>, <<"b", ".", "x", "l", "s", "x">>,
                   <<"n", ".", "t", "x", "t">> }

ConcColumns(endpoint) ==
    IF endpoint = "geocode_file"
    THEN { <<"addr">>, <<"city">> }
    ELSE { <<"lat", "lng">>, <<"nope", "lng">> }

ConcUploads(endpoint) ==
    { u \in Uploads(endpoint) :
        /\ u.format # "garbage"
        /\ u.header \in { <<"addr">>, <<"lat", "lng">> }
        /\ Len(u.rows) <= MaxConcRows }

\* the upstream behaviour the rows of one request meet
ConcUpstream(endpoint) ==
    IF endpoint = "geocode_file" THEN BatchSearchResponses ELSE BatchNomResponses

\* lines 413-414 / 515, for either endpoint
InitColumnsFor(endpoint, d) ==
    IF endpoint = "geocode_file"
    THEN SetColumnNone(SetColumnNone(d, "latitude"), "longitude")
    ELSE SetColumnNone(d, "address")

\* lines 419-430: one iteration of the forward loop, as a function of the dataset
ForwardRow(d, i, col, resp) ==
    IF notna(At(d, i, col)) /\ StripTruthy(At(d, i, col))
    THEN SetAt(SetAt(d, i, "latitude", FloatCell(get_coordinates(resp), 1)),
               i, "longitude", FloatCell(get_coordinates(resp), 2))
    ELSE d

RECURSIVE ForwardLoop(_, _, _, _)
ForwardLoop(d, i, col, resp) ==
    IF i > Len(d.rows) THEN d ELSE ForwardLoop(ForwardRow(d, i, col, resp), i + 1, col, resp)

\* lines 520-536: one iteration of the reverse loop; NoDf when the TypeError escapes
ReverseRow(d, i, cols, r) ==
    LET lat == At(d, i, cols[1])
        lng == At(d, i, cols[2])
    IN  IF ~(notna(lat) /\ notna(lng)) THEN d
        ELSE IF FloatOutcome(lat) = "TypeError"
                \/ (FloatOutcome(lat) = "ok" /\ FloatOutcome(lng) = "TypeError")
        THEN NoDf
        ELSE IF FloatOutcome(lat) = "ValueError" \/ FloatOutcome(lng) = "ValueError"
        THEN SetAt(d, i, "address", NoneCell)
        ELSE SetAt(d, i, "address",
                   StrCell(get_address_from_coordinates(
                       FloatText(lat), FloatText(lng), r, NoPlace).ret[1]))

RECURSIVE ReverseLoop(_, _, _, _)
ReverseLoop(d, i, cols, r) ==
    IF d = NoDf THEN NoDf
    ELSE IF i > Len(d.rows) THEN d
    ELSE ReverseLoop(ReverseRow(d, i, cols, r), i + 1, cols, r)

\* the try block of lines 398-435 / 494-541 on the bytes found in the temporary
\* input file: the CSV to write, or NoContent when an exception reaches the handler
TryBlock(endpoint, ext, cols, bytes, up) ==
    LET d == ReadTable(ext, bytes)
    IN  IF d = NoDf THEN NoContent
        ELSE IF \E k \in 1..Len(cols) : ~HasColumn(d, cols[k]) THEN NoContent
        ELSE LET done == IF endpoint = "geocode_file"
                         THEN ForwardLoop(InitColumnsFor(endpoint, d), 1, cols[1], up)
                         ELSE ReverseLoop(InitColumnsFor(endpoint, d), 1, cols, up)
             IN  IF done = NoDf THEN NoContent ELSE to_csv(done)

\* open(path, "wb") / to_csv(path): the file the path names, made new when none is
NoInodes == [of |-> <<>>, next |-> 1]

OpenInode(ino, path) == IF path \in DOMAIN ino.of THEN ino.of[path] ELSE ino.next

AfterOpen(ino, path) ==
    IF path \in DOMAIN ino.of THEN ino
    ELSE [of |-> [p \in DOMAIN ino.of \cup {path} |->
                    IF p = path THEN ino.next ELSE ino.of[p]],
          next |-> ino.next + 1]

\* os.remove(path)
AfterRemove(ino, path) == [ino EXCEPT !.of = [p \in DOMAIN ino.of \ {path} |-> ino.of[p]]]

\* buffer.write(content) and the close of the with block: the bytes land in the
\* file that was opened, which the path may no longer name
WriteOpenFile(f, ino, path, handle, content) ==
    IF path \in DOMAIN ino.of /\ ino.of[path] = handle
    THEN WriteFile(f, path, content)
    ELSE f

(***************************************************************************)
(* Operations.                                                             *)
(***************************************************************************)
Init ==
    /\ op = "idle"
    /\ pc = "idle"
    /\ url = <<>>
    /\ html = <<>>
    /\ coords = NoCoords
    /\ status = 0
    /\ revIn = <<"", "">>
    /\ nom = NoNom
    /\ place = NoPlace
    /\ revOut = <<PyNone, PyNone, PyNone>>
    /\ reqLog = <<>>
    /\ filename = <<>>
    /\ columns = <<>>
    /\ temp_input_path = <<>>
    /\ fs = <<>>
    /\ upload = NoContent
    /\ df = NoDf
    /\ idx = 0
    /\ log = <<>>
    /\ detail = <<>>
    /\ body = NoContent
    /\ reqs = [r \in Requests |-> NewRequest]
    /\ clock = 0
    /\ inodes = NoInodes

\* extract_lat_long applied to a URL
ExtractUrl ==
    /\ UNCHANGED concVars
    /\ op = "idle"
    /\ \E u \in SeqsUpTo(UrlSegs, MaxUrlSegs) :
        /\ url' = u
        /\ coords' = extract_lat_long(u)
    /\ op' = "extract"
    /\ pc' = "done"
    /\ UNCHANGED <<html, status, revIn, nom, place, revOut, reqLog, batchVars>>

\* GET/POST /geocode: 200 with the coordinates, 404 without
Geocode ==
    /\ UNCHANGED concVars
    /\ op = "idle"
    /\ \E resp \in SearchResponses :
        /\ url' = resp.url
        /\ html' = resp.html
        /\ coords' = get_coordinates(resp)
        /\ status' = IF get_coordinates(resp) # NoCoords THEN 200 ELSE 404
    /\ op' = "geocode"
    /\ pc' = "done"
    /\ UNCHANGED <<revIn, nom, place, revOut, reqLog, batchVars>>

\* GET/POST /reverse-geocode: 200 with the address, 404 when the address is None
ReverseGeocode ==
    /\ UNCHANGED concVars
    /\ op = "idle"
    /\ \E ll \in LatLngs : \E r \in NomResponses : \E p \in PlaceResponses(ll[1], ll[2]) :
        LET res == get_address_from_coordinates(ll[1], ll[2], r, p)
        IN  /\ revIn' = ll
            /\ nom' = r
            /\ place' = IF Len(res.log) = 2 THEN p ELSE NoPlace
            /\ revOut' = res.ret
            /\ reqLog' = res.log
            /\ status' = IF res.ret[1] # PyNone THEN 200 ELSE 404
            /\ detail' = IF res.ret[1] # PyNone THEN <<>> ELSE <<"Could not extract address">>
    /\ op' = "reverse"
    /\ pc' = "done"
    /\ UNCHANGED <<url, html, coords, filename, columns, temp_input_path, fs, upload, df,
                   idx, log, body>>

(***************************************************************************)
(* POST /geocode-file and POST /reverse-geocode-file, step by step.        *)
(***************************************************************************)
Batch == op \in {"geocode_file", "reverse_geocode_file"}

file_ext == lower(splitext(filename))

\* lines 379-392 / 475-488: the extension is validated, the temporary path chosen
ValidateExtension ==
    /\ UNCHANGED concVars
    /\ op = "idle"
    /\ \E endpoint \in {"geocode_file", "reverse_geocode_file"} :
       \E name \in Filenames : \E cols \in ColumnChoices(endpoint) : \E ts \in Timestamps :
        /\ op' = endpoint
        /\ filename' = name
        /\ columns' = cols
        /\ IF IsSupported(lower(splitext(name)))
           THEN /\ temp_input_path' = TempInputPath(ts, lower(splitext(name)))
                /\ pc' = "save"
                /\ UNCHANGED <<status, detail>>
           ELSE /\ status' = 400
                /\ detail' = <<"Only CSV and Excel files are supported">>
                /\ pc' = "done"
                /\ UNCHANGED temp_input_path
    /\ UNCHANGED <<singleVars, fs, upload, df, idx, log, body>>

\* lines 394-396 / 490-492: the upload is written to the temporary input file
SaveUpload ==
    /\ UNCHANGED concVars
    /\ Batch /\ pc = "save"
    /\ \E content \in Uploads(op) :
        /\ upload' = content
        /\ fs' = WriteFile(fs, temp_input_path, content)
    /\ pc' = "read"
    /\ UNCHANGED <<op, status, singleVars, filename, columns, temp_input_path, df, idx, log,
                   detail, body>>

\* the except clause of lines 450-454 / 556-560
Except(cause) ==
    /\ fs' = CleanUpOnError(fs, temp_input_path)
    /\ status' = 500
    /\ detail' = ErrorProcessing(cause)
    /\ pc' = "done"

\* lines 399-403 / 495-499: the temporary input file is parsed
ReadFile ==
    /\ UNCHANGED concVars
    /\ Batch /\ pc = "read"
    /\ IF temp_input_path \in DOMAIN fs /\ ReadTable(file_ext, fs[temp_input_path]) # NoDf
       THEN /\ df' = ReadTable(file_ext, fs[temp_input_path])
            /\ pc' = "check"
            /\ UNCHANGED <<fs, status, detail>>
       ELSE /\ Except(<<"parse error">>)
            /\ UNCHANGED df
    /\ UNCHANGED <<op, singleVars, filename, columns, temp_input_path, upload, idx, log, body>>

\* the first of the named columns that df.columns lacks (0: none)
MissingColumn ==
    IF \E k \in 1..Len(columns) : ~HasColumn(df, columns[k])
    THEN Min({ k \in 1..Len(columns) : ~HasColumn(df, columns[k]) })
    ELSE 0

\* lines 413-414 / 515
InitColumns(d) == InitColumnsFor(op, d)

\* lines 405-414 / 501-515: the HTTPException(400) is raised inside the try block
CheckColumns ==
    /\ UNCHANGED concVars
    /\ Batch /\ pc = "check"
    /\ IF MissingColumn # 0
       THEN /\ Except(<<"400: ">> \o ColumnNotFound(columns[MissingColumn], df))
            /\ UNCHANGED <<df, idx>>
       ELSE /\ df' = InitColumns(df)
            /\ idx' = 1
            /\ pc' = "loop"
            /\ UNCHANGED <<fs, status, detail>>
    /\ UNCHANGED <<op, singleVars, filename, columns, temp_input_path, upload, log, body>>

\* lines 418-430: one iteration of the forward loop
ProcessRowForward ==
    /\ UNCHANGED concVars
    /\ op = "geocode_file" /\ pc = "loop" /\ idx <= Len(df.rows)
    /\ IF notna(At(df, idx, columns[1])) /\ StripTruthy(At(df, idx, columns[1]))
       THEN \E resp \in BatchSearchResponses :
              /\ df' = SetAt(SetAt(df, idx, "latitude", FloatCell(get_coordinates(resp), 1)),
                             idx, "longitude", FloatCell(get_coordinates(resp), 2))
              /\ log' = log \o <<Event("geocode", idx, 0), Event("sleep", idx, ForwardDelay)>>
       ELSE UNCHANGED <<df, log>>
    /\ idx' = idx + 1
    /\ UNCHANGED <<op, pc, status, singleVars, filename, columns, temp_input_path, fs, upload,
                   detail, body>>

\* lines 519-536: one iteration of the reverse loop
ProcessRowReverse ==
    /\ UNCHANGED concVars
    /\ op = "reverse_geocode_file" /\ pc = "loop" /\ idx <= Len(df.rows)
    /\ LET lat == At(df, idx, columns[1])
           lng == At(df, idx, columns[2])
       IN  IF notna(lat) /\ notna(lng)
           THEN IF FloatOutcome(lat) = "TypeError"
                   \/ (FloatOutcome(lat) = "ok" /\ FloatOutcome(lng) = "TypeError")
                THEN /\ Except(<<"float() argument must be a string or a real number">>)
                     /\ UNCHANGED <<df, log, idx>>
                ELSE IF FloatOutcome(lat) = "ValueError" \/ FloatOutcome(lng) = "ValueError"
                THEN /\ df' = SetAt(df, idx, "address", NoneCell)
                     /\ idx' = idx + 1
                     /\ UNCHANGED <<log, fs, status, detail, pc>>
                ELSE \E r \in BatchNomResponses :
                       /\ df' = SetAt(df, idx, "address",
                                      StrCell(get_address_from_coordinates(
                                          FloatText(lat), FloatText(lng), r, NoPlace).ret[1]))
                       /\ log' = log \o <<Event("reverse", idx, 0),
                                          Event("sleep", idx, ReverseDelay)>>
                       /\ idx' = idx + 1
                       /\ UNCHANGED <<fs, status, detail, pc>>
           ELSE /\ idx' = idx + 1
                /\ UNCHANGED <<df, log, fs, status, detail, pc>>
    /\ UNCHANGED <<op, singleVars, filename, columns, temp_input_path, upload, body>>

\* lines 432-448 / 538-554: the output is written, the input removed, the file sent
SaveOutput ==
    /\ UNCHANGED concVars
    /\ Batch /\ pc = "loop" /\ idx > Len(df.rows)
    /\ \E written \in BOOLEAN :
        IF written
        THEN /\ fs' = RemoveFile(WriteFile(fs, OutputPath(op, temp_input_path[2]), to_csv(df)),
                                 temp_input_path)
             /\ body' = to_csv(df)
             /\ status' = 200
             /\ pc' = "done"
             /\ UNCHANGED detail
        ELSE /\ Except(<<"cannot write the output file">>)
             /\ UNCHANGED body
    /\ UNCHANGED <<op, singleVars, filename, columns, temp_input_path, upload, df, idx, log>>

Next ==
    \/ ExtractUrl
    \/ Geocode
    \/ ReverseGeocode
    \/ ValidateExtension
    \/ SaveUpload
    \/ ReadFile
    \/ CheckColumns
    \/ ProcessRowForward
    \/ ProcessRowReverse
    \/ SaveOutput

Spec == Init /\ [][Next]_vars

(***************************************************************************)
(* The two batch requests, interleaved.                                    *)
(***************************************************************************)
SetReq(r, rec) == [reqs EXCEPT ![r] = rec]

\* lines 379-395 / 475-491: from the start of the handler to `await file.read()`
StartBatch(r) ==
    /\ reqs[r].pc = "new"
    /\ \A q \in Requests : q < r => reqs[q].pc # "new"
    /\ \E endpoint \in {"geocode_file", "reverse_geocode_file"} :
       \E name \in ConcFilenames : \E cols \in ConcColumns(endpoint) :
        LET ext == lower(splitext(name))
            path == TempInputPath(ConcTimestamps[clock + 1], ext)
            base == [reqs[r] EXCEPT !.endpoint = endpoint, !.filename = name, !.columns = cols]
        IN  IF IsSupported(ext)
            THEN /\ reqs' = SetReq(r, [base EXCEPT !.pc = "await", !.path = path,
                                                    !.handle = OpenInode(inodes, path),
                                                    !.outpath = OutputPath(endpoint,
                                                                  ConcTimestamps[clock + 1])])
                 /\ fs' = WriteFile(fs, path, EmptyFile)
                 /\ inodes' = AfterOpen(inodes, path)
            ELSE /\ reqs' = SetReq(r, [base EXCEPT !.pc = "sent", !.status = 400])
                 /\ UNCHANGED <<fs, inodes>>
    /\ UNCHANGED <<op, pc, status, singleVars, clock, filename, columns, temp_input_path,
                   upload, df, idx, log, detail, body>>

\* lines 395-454 / 491-560: from the resumption after `await file.read()` to the
\* return of the FileResponse, or to the HTTPException(500) of the except clause
FinishBatch(r) ==
    /\ reqs[r].pc = "await"
    /\ \E content \in ConcUploads(reqs[r].endpoint) : \E up \in ConcUpstream(reqs[r].endpoint) :
        LET me == reqs[r]
            saved == WriteOpenFile(fs, inodes, me.path, me.handle, content)
            bytes == IF me.path \in DOMAIN saved THEN saved[me.path] ELSE NoContent
            csv == IF me.path \in DOMAIN saved
                   THEN TryBlock(me.endpoint, lower(splitext(me.filename)), me.columns, bytes, up)
                   ELSE NoContent
        IN  IF csv # NoContent
            THEN /\ reqs' = SetReq(r, [me EXCEPT !.pc = "returned", !.upload = content,
                                                  !.readBytes = bytes, !.written = csv,
                                                  !.status = 200])
                 /\ fs' = RemoveFile(WriteFile(saved, me.outpath, csv), me.path)
                 /\ inodes' = AfterRemove(AfterOpen(inodes, me.outpath), me.path)
            ELSE /\ reqs' = SetReq(r, [me EXCEPT !.pc = "sent", !.upload = content,
                                                  !.readBytes = bytes, !.status = 500])
                 /\ fs' = CleanUpOnError(saved, me.path)
                 /\ inodes' = AfterRemove(inodes, me.path)
    /\ UNCHANGED <<op, pc, status, singleVars, clock, filename, columns, temp_input_path,
                   upload, df, idx, log, detail, body>>

\* lines 441-448 / 547-554: the FileResponse is sent, the file at its path read then
SendFile(r) ==
    /\ reqs[r].pc = "returned"
    /\ reqs' = SetReq(r, [reqs[r] EXCEPT !.pc = "sent", !.body = fs[reqs[r].outpath]])
    /\ UNCHANGED <<op, pc, status, singleVars, batchVars, clock, inodes>>

\* line 391 / 487: datetime.now() reaches the next second
Tick ==
    /\ clock < MaxTicks
    /\ clock' = clock + 1
    /\ UNCHANGED <<op, pc, status, singleVars, batchVars, reqs, inodes>>

ConcNext ==
    \/ \E r \in Requests : StartBatch(r)
    \/ \E r \in Requests : FinishBatch(r)
    \/ \E r \in Requests : SendFile(r)
    \/ Tick

SpecConc == Init /\ [][ConcNext]_vars

(***************************************************************************)
(* Properties.                                                             *)
(***************************************************************************)
BatchDone == Batch /\ pc = "done"

\* the request got as far as a parsed dataset that lacks one of the named columns
ParsedWithoutColumn == df # NoDf /\ MissingColumn # 0

\* C1: a batch request whose upload parses but lacks a named column ends with
\* status 400 (ColumnNotFound, the detail listing the available columns), and no
\* geocoder call was made.
C1_MissingColumnIs400 ==
    (BatchDone /\ ParsedWithoutColumn) =>
        /\ status = 400
        /\ detail = ColumnNotFound(columns[MissingColumn], df)
        /\ log = <<>>

\* C2: a batch upload whose lower-cased extension is none of .csv, .xlsx, .xls is
\* rejected with 400 at once: no temporary path, no file written, nothing read,
\* no dataset, no geocoder call, no output.
C2_UnsupportedExtensionRejected ==
    (Batch /\ lower(splitext(filename)) \notin SupportedExtensions) =>
        /\ pc = "done" /\ status = 400
        /\ temp_input_path = <<>> /\ fs = <<>>
        /\ upload = NoContent /\ df = NoDf
        /\ log = <<>> /\ body = NoContent

C2_Witness ==
    /\ Batch /\ pc = "done" /\ status = 400
    /\ filename = <<"n", ".", "t", "x", "t">>

\* C3: whatever the two upstream services do, the reverse geocoder returns an
\* address that is not None, so /reverse-geocode never answers 404.
C3_AddressNeverNull ==
    op = "reverse" => (revOut[1] # PyNone /\ status # 404)

\* C4: coordinates returned by the forward geocoder are in range: latitude in
\* [-90, 90] and longitude in [-180, 180].
C4_CoordinatesInRange ==
    (op = "geocode" /\ coords # NoCoords) => InRange(coords[1], coords[2])

\* an occurrence of the pattern of this kind at segment i, and its pair
IsOccurrence(u, i, kind) == u[i].k = kind /\ IsDecimal(u[i].lat) /\ IsDecimal(u[i].lng)

PairAt(u, i) == <<ParseFloat(u[i].lat), ParseFloat(u[i].lng)>>

HasOccurrence(u, kind) == \E i \in 1..Len(u) : IsOccurrence(u, i, kind)

IsFirstOccurrence(u, i, kind) ==
    IsOccurrence(u, i, kind) /\ \A j \in 1..(i - 1) : ~IsOccurrence(u, j, kind)

\* C5 as stated: for every occurrence of @lat,lng in the URL, the URL extractor
\* returns exactly that occurrence's pair.
C5_EveryAtOccurrenceReturned ==
    op = "extract" =>
        \A i \in 1..Len(url) : IsOccurrence(url, i, "at") => coords = PairAt(url, i)

\* C5 amended: the URL extractor returns the pair of the leftmost occurrence of
\* @lat,lng, whatever !3d/!4d occurrences stand before or after it; the leftmost
\* !3d/!4d occurrence decides only when the URL has no @lat,lng occurrence, and
\* without either the result is (None, None).
C5_LeftmostAtOccurrenceReturned ==
    op = "extract" =>
        /\ \A i \in 1..Len(url) : IsFirstOccurrence(url, i, "at") => coords = PairAt(url, i)
        /\ ~HasOccurrence(url, "at") =>
              /\ \A i \in 1..Len(url) :
                    IsFirstOccurrence(url, i, "bang") => coords = PairAt(url, i)
              /\ ~HasOccurrence(url, "bang") => coords = NoCoords

C5_Witness ==
    /\ op = "extract" /\ Len(url) = 3
    /\ IsOccurrence(url, 1, "bang") /\ IsOccurrence(url, 2, "at") /\ IsOccurrence(url, 3, "bang")
    /\ PairAt(url, 1) # PairAt(url, 2)
    /\ coords = PairAt(url, 2)

\* the columns a batch endpoint adds
AppendedColumns == IF op = "geocode_file" THEN <<"latitude", "longitude">> ELSE <<"address">>

\* C6: the dataset sent back has the upload's rows in order and every original
\* column with its original values; the only difference is the appended columns.
C6_OriginalColumnsPreserved ==
    (Batch /\ status = 200) =>
        /\ Len(body.header) >= Len(upload.header)
        /\ SubSeq(body.header, 1, Len(upload.header)) = upload.header
        /\ \A j \in (Len(upload.header) + 1)..Len(body.header) :
              \E k \in 1..Len(AppendedColumns) : body.header[j] = AppendedColumns[k]
        /\ Len(body.rows) = Len(upload.rows)
        /\ \A i \in 1..Len(upload.rows) : \A j \in 1..Len(upload.header) :
              body.rows[i][j] = upload.rows[i][j]

\* the cell of row i of the upload in the named column
UploadCell(i, name) == upload.rows[i][ColIndex(upload, name)]

\* missing, or blank: empty or whitespace only
IsBlank(c) == c.t = "na" \/ (c.t = "str" /\ c.v \in { <<"">>, <<"  ">> })

RowEvents(i) == SelectSeq(log, LAMBDA ev : ev.row = i)

InRowOrder == \A a, b \in 1..Len(log) : a <= b => log[a].row <= log[b].row

ForwardRowOK(i) ==
    IF IsBlank(UploadCell(i, columns[1]))
    THEN /\ RowEvents(i) = <<>>
         /\ At(df, i, "latitude") = NoneCell /\ At(df, i, "longitude") = NoneCell
    ELSE /\ RowEvents(i) = <<Event("geocode", i, 0), Event("sleep", i, ForwardDelay)>>
         /\ At(df, i, "latitude").t \in {"none", "num"}
         /\ At(df, i, "longitude").t = At(df, i, "latitude").t

\* C7: the forward batch visits the rows in order; a row of the upload whose
\* address is missing or blank gets no geocoder call, no delay and null
\* latitude/longitude; every other row gets exactly one call, its result, and one
\* 0.5 delay; the output is written after the last row.
C7_ForwardRowsProcessed ==
    (op = "geocode_file" /\ pc \in {"loop", "done"} /\ idx >= 1) =>
        /\ \A i \in 1..(idx - 1) : ForwardRowOK(i)
        /\ InRowOrder
        /\ status = 200 => idx = Len(upload.rows) + 1

ReverseRowOK(i) ==
    LET lat == UploadCell(i, columns[1])
        lng == UploadCell(i, columns[2])
    IN  IF lat.t = "num" /\ lng.t = "num"
        THEN RowEvents(i) = <<Event("reverse", i, 0), Event("sleep", i, ReverseDelay)>>
        ELSE RowEvents(i) = <<>> /\ At(df, i, "address") = NoneCell

\* C8: the reverse batch never aborts on a bad row: a row whose latitude or
\* longitude is present but no number keeps a null address and gets no call, the
\* rows with two numbers get one call and one 1.0 delay each, and the request does
\* not end with 500 in the middle of the rows.
C8_ReverseBadRowSkipped ==
    (op = "reverse_geocode_file" /\ pc \in {"loop", "done"} /\ idx >= 1) =>
        /\ \A i \in 1..(idx - 1) : ReverseRowOK(i)
        /\ InRowOrder
        /\ status = 500 => idx = Len(upload.rows) + 1

\* C9: once the temporary input file was written, it no longer exists when the
\* request is complete, whether it ends with the CSV or with an error.
C9_TempInputFileRemoved ==
    (BatchDone /\ upload # NoContent) => temp_input_path \notin DOMAIN fs

C9_Witness ==
    /\ BatchDone /\ upload # NoContent
    /\ status = 500 /\ ParsedWithoutColumn
    /\ temp_input_path \notin DOMAIN fs

\* the reverse-geocoding API answered 200 with an object that has display_name
DisplayNamePresent(r) == ~r.exc /\ r.status = 200 /\ r.json = "object" /\ r.dn # "absent"

\* step 1 raised: the request, the JSON parse, the membership test, the indexing,
\* the address lookup or the join
Step1Raised(r) ==
    \/ r.exc
    \/ /\ r.status = 200
       /\ \/ r.json \in {"unparsable", "null", "list_dn", "str_dn"}
          \/ /\ DisplayNamePresent(r)
             /\ r.addr = "notdict" \/ (r.addr = "dict" /\ r.numeric /\ "postcode" \in r.comps)

\* step 1 completed and gave no result
Step1NoResult(r) ==
    /\ ~r.exc
    /\ r.status # 200 \/ r.json \in {"list", "str"} \/ (r.json = "object" /\ r.dn = "absent")

\* the resolved URL is <place prefix> <name> /@ <rest>
IsNamedPlace(u) == Len(u) >= 5 /\ u[2] = PlaceBase /\ u[Len(u) - 1] = "/@"

\* C10: the reverse geocoder's fallback chain.  (1) 200 with display_name: that
\* result, and never a place-page request; (2) the place page is requested exactly
\* when step 1 completed without a result, and a /place/<name>/@ URL gives the
\* decoded name twice and the resolved URL; (3) in every other case, any exception
\* included, the synthesized triple.
C10_FallbackChain ==
    op = "reverse" =>
        LET lat == revIn[1]
            lng == revIn[2]
            placed == reqLog = <<"nominatim", "place">>
        IN  /\ reqLog \in { <<"nominatim">>, <<"nominatim", "place">> }
            /\ DisplayNamePresent(nom) => ~placed
            /\ (DisplayNamePresent(nom) /\ ~Step1Raised(nom)) =>
                  /\ revOut[1] = IF nom.dn = "null" THEN PyNone ELSE DisplayName
                  /\ revOut[3] = PlaceUrl(lat, lng)
            /\ placed <=> Step1NoResult(nom)
            /\ (placed /\ ~place.exc /\ IsNamedPlace(place.url)) =>
                  LET name == Str(unquote(ReplacePlus(SubSeq(place.url, 3, Len(place.url) - 2))))
                  IN  revOut = <<name, name, place.url>>
            /\ (Step1Raised(nom) \/ (placed /\ (place.exc \/ ~IsNamedPlace(place.url)))) =>
                  revOut = <<Str(<<lat, ", ", lng>>), Str(<<"Location at ", lat, ", ", lng>>),
                             Str(<<PlaceBase, lat, ",", lng>>)>>

C10_Witness ==
    /\ op = "reverse" /\ reqLog = <<"nominatim", "place">>
    /\ nom.status = 200 /\ nom.json = "object" /\ nom.dn = "absent"
    /\ place.url = Str(<<PlaceBase, "Medanta", "+", "Hospital", "/@", "17z">>)
    /\ revOut = <<Str(<<"Medanta", " ", "Hospital">>), Str(<<"Medanta", " ", "Hospital">>),
                  place.url>>

\* the request fails whatever else is in flight: its own upload does not parse,
\* lacks a named column, or raises in the loop
FailsAlone(r) ==
    \A up \in ConcUpstream(reqs[r].endpoint) :
        TryBlock(reqs[r].endpoint, lower(splitext(reqs[r].filename)), reqs[r].columns,
                 reqs[r].upload, up) = NoContent

\* C11: of two batch requests in flight at the same time, also with the same
\* timestamp, each reads only the bytes of its own upload, neither fails because
\* of the other's write or removal of a temporary file, and the CSV a client
\* receives is the one computed from its own upload.
C11_RequestsIsolated ==
    \A r \in Requests :
        /\ reqs[r].pc \in {"returned", "sent"} /\ reqs[r].status # 400
              => reqs[r].readBytes \in {NoContent, reqs[r].upload}
        /\ reqs[r].status = 500 => FailsAlone(r)
        /\ reqs[r].pc = "sent" /\ reqs[r].status = 200 => reqs[r].body = reqs[r].written

====
